---- MODULE Spec2Model ----
(***************************************************************************)
(* Model of the flashlight repository.                                     *)
(*                                                                         *)
(* Part 1: genconfig (src/unnamed/part_000, package main).  feedDomains    *)
(* hands the domain list to a pool of grabCerts workers over the           *)
(* unbuffered channel domainsCh; every worker probes the domains it        *)
(* receives and sends a *masquerade per successful probe over the          *)
(* unbuffered channel masqueradesCh; the main goroutine runs               *)
(* coalesceMasquerades over that channel and then buildModel.              *)
(*                                                                         *)
(* Parts 2 to 7, each with a specification of its own, follow the         *)
(* properties of part 1: logging.NonStopWriter (WriterSpec),               *)
(* statreporter.DimGroup (DimSpec), statreporter.ClientReporter            *)
(* (ReporterSpec), proxy.Client (ClientSpec) and the leaf certificates of  *)
(* the MITM handler (LeafSpec), and logging.Configure (LoggingSpec).       *)
(*                                                                         *)
(* Go values are modelled as follows.                                      *)
(*  - a string that is only compared for equality (PEM text, common name,  *)
(*    IP address) is a TLA+ string; a domain name, which sort.Sort orders  *)
(*    with Go's bytewise "<", is the sequence of its bytes;                *)
(*  - a *castat is an index into the heap "castats";                       *)
(*  - a float64 is the exact value it holds, written in fixed point with   *)
(*    two 26-bit limbs below the binary point (see Float64Div);            *)
(*  - a send and the matching receive on an unbuffered channel are one     *)
(*    step (the rendezvous).                                               *)
(***************************************************************************)
EXTENDS Integers, Sequences, FiniteSets, TLC

(***************************************************************************)
(* Bounds of the model.                                                    *)
(***************************************************************************)
\* size of the worker pool (50 in the source, bounded here)
numberOfWorkers == 2
\* longest domain list that is fed to the pool
MaxDomains == 3

\* "a", "ab", "b" as byte strings
DomainNames == { <<97>>, <<97, 98>>, <<98>> }
\* the blacklists tried: "ab" is blacklisted, so that a domain list without
\* "ab" runs as under an empty blacklist
Blacklists == { { <<97, 98>> } }
\* the -minfreq values tried (percent); 3.0 is the default of the flag
MinFreqs == { 3, 50 }
\* root certificates a probe can find: two distinct PEMs share a common name
RootCerts == { [CommonName |-> "Root X", Cert |-> "pemX1"],
               [CommonName |-> "Root X", Cert |-> "pemX2"] }
\* addresses a domain can resolve to
IPs == { "10.0.0.1" }

Workers == 1 .. numberOfWorkers

RECURSIVE SeqsUpTo(_, _)
SeqsUpTo(S, n) ==
  IF n = 0 THEN { <<>> }
  ELSE LET shorter == SeqsUpTo(S, n - 1)
       IN shorter \cup { Append(s, x) : s \in shorter, x \in S }

(***************************************************************************)
(* float64.  A finite value v >= 0 is the record                           *)
(*   [cls |-> "fin", i, fh, fl]   with   v = i + fh/2^26 + fl/2^52,        *)
(* which is exact for every float64 with 1 <= v < 2^31 (53 significant     *)
(* bits never reach below 2^-52 there) and for 0.                          *)
(***************************************************************************)
P26 == 2 ^ 26

PosInf == [cls |-> "inf", i |-> 0, fh |-> 0, fl |-> 0]
NaN == [cls |-> "nan", i |-> 0, fh |-> 0, fl |-> 0]

\* float64(n) of a small non-negative integer: exact
FloatFromInt(n) == [cls |-> "fin", i |-> n, fh |-> 0, fl |-> 0]

\* f + float64(k) and f * float64(k) for an integer-valued float64 f: both
\* are exact below 2^53, and freq is integer-valued until line 240 divides
FloatAddInt(f, k) == IF f.cls = "fin" THEN [f EXCEPT !.i = @ + k] ELSE f
FloatMulInt(f, k) == IF f.cls = "fin" THEN [f EXCEPT !.i = @ * k] ELSE f

RECURSIVE ILog2(_)
ILog2(n) == IF n <= 1 THEN 0 ELSE 1 + ILog2(n \div 2)

\* float64(n) / float64(d), rounded to nearest, ties to even (IEEE 754).
\* The quotient is first cut to 52 fractional bits by long division; e is
\* its binary exponent, so one ulp is 2^e units of 2^-52, and the bits
\* below the ulp together with the division's remainder decide the rounding.
Float64Div(n, d) ==
  IF d = 0 THEN (IF n = 0 THEN NaN ELSE PosInf)
  ELSE LET ip == n \div d
           r0 == n % d
           th == (r0 * P26) \div d
           r1 == (r0 * P26) % d
           tl == (r1 * P26) \div d
           r2 == (r1 * P26) % d
           ulp == 2 ^ ILog2(ip)
           drop == tl % ulp
           keep == tl - drop
           twice == 2 * (drop * d + r2)
           odd == (keep \div ulp) % 2 = 1
           up == twice > ulp * d \/ (twice = ulp * d /\ odd)
           rl == IF up THEN keep + ulp ELSE keep
           rh == th + (rl \div P26)
       IN [cls |-> "fin", i |-> ip + (rh \div P26),
           fh |-> rh % P26, fl |-> rl % P26]

\* a > b on float64 (false when either is NaN)
FloatGT(a, b) ==
  CASE a.cls = "nan" \/ b.cls = "nan" -> FALSE
    [] a.cls = "inf" -> b.cls = "fin"
    [] b.cls = "inf" -> FALSE
    [] OTHER -> \/ a.i > b.i
                \/ a.i = b.i /\ a.fh > b.fh
                \/ a.i = b.i /\ a.fh = b.fh /\ a.fl > b.fl

\* Go's "<" on strings: bytewise lexicographic
RECURSIVE StrLess(_, _)
StrLess(a, b) ==
  IF a = <<>> THEN b # <<>>
  ELSE IF b = <<>> THEN FALSE
  ELSE IF a[1] # b[1] THEN a[1] < b[1]
  ELSE StrLess(Tail(a), Tail(b))

(***************************************************************************)
(* State of one genconfig run.                                             *)
(***************************************************************************)
VARIABLES
  domains,              \* var domains []string, as loadDomains left it
  blacklist,            \* var blacklist filter, as loadBlacklist left it
  minFreq,              \* *minFreq, the -minfreq flag, once it was read
  feederPc,             \* where feedDomains stands
  feedIdx,              \* index of the next domain feedDomains sends
  domainsChClosed,      \* close(domainsCh) has happened
  masqueradesChClosed,  \* close(masqueradesCh) has happened
  wg,                   \* counter of the sync.WaitGroup
  worker,               \* per grabCerts goroutine: pc and masquerade to send
  castats,              \* heap of castat objects; a *castat is an index
  mainPc,               \* where the main goroutine stands
  count,                \* coalesceMasquerades: count
  allCAs,               \* coalesceMasquerades: allCAs, Cert -> *castat
  allMasquerades,       \* coalesceMasquerades: allMasquerades
  trustedCAs,           \* coalesceMasquerades: trustedCAs, Cert -> *castat
  trustedMasquerades,   \* coalesceMasquerades: trustedMasquerades
  model,                \* buildModel: the "cas" and "masquerades" entries
  panicked,             \* a goroutine panicked: the Go runtime ends the process
  probes                \* history: per entry of domains, what happened to it

\* The other parts of the repository; each has a specification of its own
\* (WriterSpec, DimSpec, ReporterSpec, ClientSpec, LeafSpec, LoggingSpec),
\* and rests
\* while another part runs.
VARIABLES
  nsw,                  \* logging: a nonStopWriter and its Write call
  dims,                 \* statreporter: the DimGroup objects made so far
  reporter,             \* statreporter: a ClientReporter and its goroutine
  client,               \* proxy: a Client, its Run and its Director
  leaf,                 \* proxy: the leaf certificates of the MITM handler
  logging               \* logging: Configure, cfgMutex and lastAddr

others == << nsw, dims, reporter, client, leaf, logging >>

config == << domains, blacklist >>
inputs == << domains, blacklist, minFreq >>
feeder == << feederPc, domainsChClosed, masqueradesChClosed >>
coalesced == << count, allCAs, allMasquerades >>
trusted == << trustedCAs, trustedMasquerades >>
genconfig == << domains, blacklist, minFreq, feederPc, feedIdx,
               domainsChClosed, masqueradesChClosed, wg, worker, castats,
               mainPc, count, allCAs, allMasquerades, trustedCAs,
               trustedMasquerades, model, panicked, probes >>
vars == << genconfig, others >>

\* the other parts before they are started
NoWriter == [pc |-> "off"]
NoDims == [pc |-> "off"]
NoReporter == [pc |-> "off"]
NoClient == [pc |-> "off"]
NoLeaf == [pc |-> "off"]
NoLogging == [pc |-> "off"]

OthersAtRest ==
  /\ nsw = NoWriter
  /\ dims = NoDims
  /\ reporter = NoReporter
  /\ client = NoClient
  /\ leaf = NoLeaf
  /\ logging = NoLogging

\* *minFreq is read in one place, the trust filter: the value of the flag
\* is drawn there, and until then the variable holds NotRead
NotRead == [cls |-> "unread", i |-> 0, fh |-> 0, fl |-> 0]

\* nil *castat, a worker that holds no masquerade, the model before buildModel
NoCA == [CommonName |-> "", Cert |-> "", freq |-> FloatFromInt(0)]
NoMasquerade == [Domain |-> <<>>, IpAddress |-> "", RootCA |-> 0]
NoModel == [cas |-> <<>>, masquerades |-> <<>>]

\* history of one entry of the domain list: how often a worker received it,
\* how often it was dialed, how many masquerades were sent for it, and
\* whether its probe failed
NoProbe == [taken |-> 0, dials |-> 0, sent |-> 0, failed |-> FALSE]

\* the empty Go map
EmptyMap == <<>>
\* mutant of MapPut: the entry is put into a fresh map
MapPutFresh(m, k, v) == [x \in {k} |-> v]

\* "m[k] = v" on a Go map
MapPut(m, k, v) == [x \in DOMAIN m \cup {k} |-> IF x = k THEN v ELSE m[x]]

\* The castat that the probe of entry i allocates lives at heap index i.
GenconfigStart ==
  /\ domains \in SeqsUpTo(DomainNames, MaxDomains)
  /\ blacklist \in Blacklists
  /\ minFreq = NotRead
  /\ feederPc = "spawn"
  /\ feedIdx = 1
  /\ domainsChClosed = FALSE
  /\ masqueradesChClosed = FALSE
  /\ wg = 0
  /\ worker = [w \in Workers |-> [pc |-> "unborn", masq |-> NoMasquerade]]
  /\ castats = [i \in 1 .. Len(domains) |-> NoCA]
  /\ mainPc = "range"
  /\ count = 0
  /\ allCAs = EmptyMap
  /\ allMasquerades = <<>>
  /\ trustedCAs = EmptyMap
  /\ trustedMasquerades = <<>>
  /\ model = NoModel
  /\ panicked = FALSE
  /\ probes = [i \in 1 .. Len(domains) |-> NoProbe]

Init == GenconfigStart /\ OthersAtRest

\* genconfig before it is given anything to do
GenconfigAtRest == GenconfigStart /\ domains = <<>>

(***************************************************************************)
(* feedDomains                                                             *)
(***************************************************************************)
\* wg.Add(numberOfWorkers) and the loop of "go grabCerts()"
SpawnWorkers ==
  /\ ~panicked
  /\ feederPc = "spawn"
  /\ wg' = wg + numberOfWorkers
  /\ worker' = [w \in Workers |-> [worker[w] EXCEPT !.pc = "recv"]]
  /\ feederPc' = "feed"
  /\ UNCHANGED << others, inputs, feedIdx, domainsChClosed,
                  masqueradesChClosed, castats, mainPc, coalesced, trusted,
                  model, panicked, probes >>

\* close(domainsCh) after the last domain was handed over
CloseDomainsCh ==
  /\ ~panicked
  /\ feederPc = "feed"
  /\ feedIdx > Len(domains)
  /\ domainsChClosed' = TRUE
  /\ feederPc' = "wait"
  /\ UNCHANGED << others, inputs, feedIdx, masqueradesChClosed, wg, worker,
                  castats, mainPc, coalesced, trusted, model, panicked,
                  probes >>

\* mutant of WaitDone: feedDomains does not wait for the workers
WaitSkipped == TRUE

\* wg.Wait() returns
WaitDone == wg = 0

\* wg.Wait() followed by close(masqueradesCh)
CloseMasqueradesCh ==
  /\ ~panicked
  /\ feederPc = "wait"
  /\ WaitDone
  /\ masqueradesChClosed' = TRUE
  /\ feederPc' = "done"
  /\ UNCHANGED << others, inputs, feedIdx, domainsChClosed, wg, worker,
                  castats, mainPc, coalesced, trusted, model, panicked,
                  probes >>

(***************************************************************************)
(* grabCerts.  One step of a worker is one iteration of its range loop:    *)
(* the receive from domainsCh (a rendezvous with feedDomains' send) and    *)
(* the probe of the domain received, up to the "continue" or up to the     *)
(* send on masqueradesCh, where the worker blocks.                         *)
(***************************************************************************)
\* mutant of Blacklisted: the blacklist is not consulted
NeverBlacklisted(domain) == FALSE

\* "_, blacklisted := blacklist[domain]"
Blacklisted(domain) == domain \in blacklist

\* the index feedDomains' range loop moves to after a send
NextDomain(i) == i + 1

\* "domainsCh <- domain" meets "for domain := range domainsCh" of worker w
Receive(w) ==
  /\ ~panicked
  /\ feederPc = "feed"
  /\ feedIdx <= Len(domains)
  /\ worker[w].pc = "recv"
  /\ feedIdx' = NextDomain(feedIdx)

\* the range loop ends on the closed channel; the deferred wg.Done() runs
WorkerExit(w) ==
  /\ ~panicked
  /\ worker[w].pc = "recv"
  /\ domainsChClosed
  /\ worker' = [worker EXCEPT ![w].pc = "done"]
  /\ wg' = wg - 1
  /\ UNCHANGED << others, inputs, feeder, feedIdx, castats, mainPc, coalesced,
                  trusted, model, panicked, probes >>

\* "if blacklisted { continue }"
SkipBlacklisted(w) ==
  /\ Receive(w)
  /\ Blacklisted(domains[feedIdx])
  /\ probes' = [probes EXCEPT ![feedIdx].taken = @ + 1]
  /\ UNCHANGED << others, inputs, feeder, wg, worker, castats, mainPc,
                  coalesced, trusted, model, panicked >>

\* mutant of DialFail: the failed dial is tried a second time
DialFailRetry(w) ==
  /\ Receive(w)
  /\ ~Blacklisted(domains[feedIdx])
  /\ probes' = [probes EXCEPT ![feedIdx] =
                  [@ EXCEPT !.taken = @ + 1, !.dials = @ + 2,
                            !.failed = TRUE]]
  /\ UNCHANGED << others, inputs, feeder, wg, worker, castats, mainPc,
                  coalesced, trusted, model, panicked >>

\* tlsdialer.DialForTimings returns an error (DNS, connect, handshake,
\* verification or the 10 s timeout): "continue"
DialFail(w) ==
  /\ Receive(w)
  /\ ~Blacklisted(domains[feedIdx])
  /\ probes' = [probes EXCEPT ![feedIdx] =
                  [@ EXCEPT !.taken = @ + 1, !.dials = @ + 1,
                            !.failed = TRUE]]
  /\ UNCHANGED << others, inputs, feeder, wg, worker, castats, mainPc,
                  coalesced, trusted, model, panicked >>

\* the dial succeeds with no verified chain: "cwt.VerifiedChains[0]" is an
\* index out of range, the goroutine panics and the process ends
DialEmptyChain(w) ==
  /\ Receive(w)
  /\ ~Blacklisted(domains[feedIdx])
  /\ probes' = [probes EXCEPT ![feedIdx] =
                  [@ EXCEPT !.taken = @ + 1, !.dials = @ + 1,
                            !.failed = TRUE]]
  /\ panicked' = TRUE
  /\ UNCHANGED << others, inputs, feeder, wg, worker, castats, mainPc,
                  coalesced, trusted, model >>

\* mutant of LoadCertFail: the "continue" is missing, and a masquerade with
\* an empty certificate is sent
LoadCertFailSends(w) ==
  /\ Receive(w)
  /\ ~Blacklisted(domains[feedIdx])
  /\ castats' = [castats EXCEPT ![feedIdx] = NoCA]
  /\ worker' = [worker EXCEPT ![w] =
                  [pc |-> "send",
                   masq |-> [Domain |-> domains[feedIdx],
                             IpAddress |-> "", RootCA |-> feedIdx]]]
  /\ probes' = [probes EXCEPT ![feedIdx] =
                  [@ EXCEPT !.taken = @ + 1, !.dials = @ + 1,
                            !.failed = TRUE]]
  /\ UNCHANGED << others, inputs, feeder, wg, mainPc, coalesced, trusted,
                  model, panicked >>

\* keyman.LoadCertificateFromX509 rejects the root certificate: "continue"
LoadCertFail(w) ==
  /\ Receive(w)
  /\ ~Blacklisted(domains[feedIdx])
  /\ probes' = [probes EXCEPT ![feedIdx] =
                  [@ EXCEPT !.taken = @ + 1, !.dials = @ + 1,
                            !.failed = TRUE]]
  /\ UNCHANGED << others, inputs, feeder, wg, worker, castats, mainPc,
                  coalesced, trusted, model, panicked >>

\* the probe succeeds: a new castat (freq 0) and a masquerade pointing to
\* it; the worker blocks in "masqueradesCh <- &masquerade{...}"
ProbeOK(w) ==
  /\ Receive(w)
  /\ ~Blacklisted(domains[feedIdx])
  /\ \E root \in RootCerts, ip \in IPs :
       /\ castats' = [castats EXCEPT ![feedIdx] =
                        [CommonName |-> root.CommonName, Cert |-> root.Cert,
                         freq |-> FloatFromInt(0)]]
       /\ worker' = [worker EXCEPT ![w] =
                       [pc |-> "send",
                        masq |-> [Domain |-> domains[feedIdx],
                                  IpAddress |-> ip, RootCA |-> feedIdx]]]
  /\ probes' = [probes EXCEPT ![feedIdx] =
                  [@ EXCEPT !.taken = @ + 1, !.dials = @ + 1]]
  /\ UNCHANGED << others, inputs, feeder, wg, mainPc, coalesced, trusted,
                  model, panicked >>

(***************************************************************************)
(* coalesceMasquerades                                                     *)
(***************************************************************************)
\* mutant of Percent: the factor is 10
PercentFactorTen(freq) == FloatMulInt(freq, 10)

\* "ca.freq*100"
Percent(freq) == FloatMulInt(freq, 100)

\* mutant of RelativeFreq: the divisor counts one result too many
RelativeFreqOfOneMore(freq, cnt) == Float64Div(Percent(freq).i, cnt + 1)

\* "float64(ca.freq*100) / float64(count)"
RelativeFreq(freq, cnt) == Float64Div(Percent(freq).i, cnt)

\* mutant of Trusted: ">=" for ">"
TrustedOrEqual(freq, min) == FloatGT(freq, min) \/ freq = min

\* "if ca.freq > *minFreq"
Trusted(freq, min) == FloatGT(freq, min)

\* mutant of CaFound: the lookup result is ignored
CaFoundAlways(heap, cas, m) == TRUE

\* "_, caFound := trustedCAs[masquerade.RootCA.Cert]"
CaFound(heap, cas, m) == heap[m.RootCA].Cert \in DOMAIN cas

\* "masqueradesCh <- &masquerade{...}" of worker w meets one iteration of
\* "for masquerade := range masqueradesCh" with its body
SendMasquerade(w) ==
  /\ ~panicked
  /\ worker[w].pc = "send"
  /\ mainPc = "range"
  /\ ~masqueradesChClosed
  /\ LET m == worker[w].masq
         cert == castats[m.RootCA].Cert
         ca == IF cert \in DOMAIN allCAs THEN allCAs[cert] ELSE m.RootCA
     IN /\ count' = count + 1
        /\ castats' = [castats EXCEPT ![ca].freq = FloatAddInt(@, 1)]
        /\ allCAs' = MapPut(allCAs, castats[ca].Cert, ca)
        /\ allMasquerades' = Append(allMasquerades, m)
        /\ probes' = [probes EXCEPT ![m.RootCA].sent = @ + 1]
  /\ worker' = [worker EXCEPT ![w] = [pc |-> "recv", masq |-> NoMasquerade]]
  /\ UNCHANGED << others, inputs, feeder, feedIdx, wg, mainPc, trusted, model,
                  panicked >>

\* the range loop ends on the closed channel; then the loop that makes every
\* frequency relative and keeps the CAs above *minFreq
ComputeTrustedCAs ==
  /\ ~panicked
  /\ mainPc = "range"
  /\ masqueradesChClosed
  /\ \E min \in { FloatFromInt(f) : f \in MinFreqs } :
       LET ids == { allCAs[c] : c \in DOMAIN allCAs }
           heap == [id \in DOMAIN castats |->
                      IF id \in ids
                      THEN [castats[id] EXCEPT
                              !.freq = RelativeFreq(@, count)]
                      ELSE castats[id]]
           kept == { c \in DOMAIN allCAs : Trusted(heap[allCAs[c]].freq, min) }
       IN /\ minFreq' = min
          /\ castats' = heap
          /\ trustedCAs' = [c \in kept |-> allCAs[c]]
  /\ mainPc' = "filter"
  /\ UNCHANGED << others, config, feeder, feedIdx, wg, worker, coalesced,
                  trustedMasquerades, model, panicked, probes >>

\* the loop that picks the masquerades of the trusted CAs, and the return
FilterMasquerades ==
  /\ ~panicked
  /\ mainPc = "filter"
  /\ trustedMasquerades' =
       SelectSeq(allMasquerades, LAMBDA m : CaFound(castats, trustedCAs, m))
  /\ mainPc' = "returned"
  /\ UNCHANGED << others, inputs, feeder, feedIdx, wg, worker, castats,
                  coalesced, trustedCAs, model, panicked, probes >>

(***************************************************************************)
(* buildModel                                                              *)
(***************************************************************************)
\* ByDomain.Less on two masquerades
ByDomainLess(a, b) == StrLess(a.Domain, b.Domain)

\* mutant of ByFreqLess: "<" for ">"
ByFreqAscending(heap, a, b) == FloatGT(heap[b].freq, heap[a].freq)

\* ByFreq.Less on two *castat
ByFreqLess(heap, a, b) == FloatGT(heap[a].freq, heap[b].freq)

\* Less of the sort.Interface "by"
Less(by, heap, a, b) ==
  IF by = "ByDomain" THEN ByDomainLess(a, b) ELSE ByFreqLess(heap, a, b)

\* Swap of both sort.Interface implementations
Swap(s, i, j) == [s EXCEPT ![i] = s[j], ![j] = s[i]]

\* sort.Sort on a slice shorter than its quicksort cut-off is insertionSort:
\*   for i := a+1; i < b; i++ {
\*     for j := i; j > a && data.Less(j, j-1); j-- { data.Swap(j, j-1) } }
RECURSIVE SortInner(_, _, _, _)
SortInner(by, heap, s, j) ==
  IF j > 1 /\ Less(by, heap, s[j], s[j - 1])
  THEN SortInner(by, heap, Swap(s, j, j - 1), j - 1)
  ELSE s

RECURSIVE SortOuter(_, _, _, _)
SortOuter(by, heap, s, i) ==
  IF i > Len(s) THEN s
  ELSE SortOuter(by, heap, SortInner(by, heap, s, i), i + 1)

SortSort(by, heap, s) == SortOuter(by, heap, s, 2)

\* the orders in which "for _, ca := range cas" can visit a Go map
MapOrders(m) ==
  LET n == Cardinality(DOMAIN m)
  IN { [i \in 1 .. n |-> m[ks[i]]] :
         ks \in { f \in [1 .. n -> DOMAIN m] :
                    \A i, j \in 1 .. n : i # j => f[i] # f[j] } }

\* buildModel(cas, masquerades); sort.Sort(ByDomain(masquerades)) sorts the
\* caller's slice in place
BuildModel ==
  /\ ~panicked
  /\ mainPc = "returned"
  /\ \E casList \in MapOrders(trustedCAs) :
       LET sorted == SortSort("ByDomain", castats, trustedMasquerades)
       IN /\ model' = [cas |-> SortSort("ByFreq", castats, casList),
                       masquerades |-> sorted]
          /\ trustedMasquerades' = sorted
  /\ mainPc' = "built"
  /\ UNCHANGED << others, inputs, feeder, feedIdx, wg, worker, castats,
                  coalesced, trustedCAs, panicked, probes >>

Next ==
  \/ SpawnWorkers
  \/ CloseDomainsCh
  \/ CloseMasqueradesCh
  \/ \E w \in Workers : WorkerExit(w)
  \/ \E w \in Workers : SkipBlacklisted(w)
  \/ \E w \in Workers : DialFail(w)
  \/ \E w \in Workers : DialEmptyChain(w)
  \/ \E w \in Workers : LoadCertFail(w)
  \/ \E w \in Workers : ProbeOK(w)
  \/ \E w \in Workers : SendMasquerade(w)
  \/ ComputeTrustedCAs
  \/ FilterMasquerades
  \/ BuildModel

Spec == Init /\ [][Next]_vars

\* The Go scheduler runs a goroutine that can take a step, and every probe
\* returns: while some step of the run is possible, a step is taken.
FairSpec == Spec /\ WF_vars(Next)

(***************************************************************************)
(* Vocabulary of the properties.                                           *)
(***************************************************************************)
Range(s) == { s[k] : k \in DOMAIN s }

\* the PEM of the root CA a masquerade points to
CertOf(m) == castats[m.RootCA].Cert

\* how many results of the stream carried this PEM
Occurrences(cert) ==
  Cardinality({ k \in DOMAIN allMasquerades :
                  CertOf(allMasquerades[k]) = cert })

\* the probe of entry i of the domain list succeeded
Succeeded(i) == probes[i].dials > 0 /\ ~probes[i].failed

\* coalesceMasquerades is past its range loop / has returned
Filtering == mainPc \in { "filter", "returned", "built" }
Returned == mainPc \in { "returned", "built" }

\* exact arithmetic on the values float64s hold (no rounding)
FixMulInt(f, k) ==
  LET l == f.fl * k
      h == f.fh * k + (l \div P26)
  IN [cls |-> "fin", i |-> f.i * k + (h \div P26), fh |-> h % P26,
      fl |-> l % P26]

FixAdd(a, b) ==
  LET l == a.fl + b.fl
      h == a.fh + b.fh + (l \div P26)
  IN [cls |-> "fin", i |-> a.i + b.i + (h \div P26), fh |-> h % P26,
      fl |-> l % P26]

RECURSIVE FixSum(_)
FixSum(fs) ==
  IF fs = <<>> THEN FloatFromInt(0) ELSE FixAdd(Head(fs), FixSum(Tail(fs)))

\* |x - n| <= u * 2^-52 for a value x, an integer n >= 1 and 0 <= u < 2^26
WithinUnits(x, n, u) ==
  /\ x.cls = "fin"
  /\ \/ x.i = n /\ x.fh = 0 /\ x.fl <= u
     \/ x.i = n - 1 /\ x.fh = P26 - 1 /\ x.fl >= P26 - u

\* the frequencies of all CAs seen, in some order
RECURSIVE SeenFreqs(_)
SeenFreqs(certs) ==
  IF certs = {} THEN <<>>
  ELSE LET c == CHOOSE x \in certs : TRUE
       IN << castats[allCAs[c]].freq >> \o SeenFreqs(certs \ {c})

C2_MasqueradesIffTrustedCA ==
  /\ Returned =>
       /\ Range(trustedMasquerades) =
            { m \in Range(allMasquerades) : CertOf(m) \in DOMAIN trustedCAs }
       /\ Len(trustedMasquerades) = Cardinality(Range(trustedMasquerades))
  /\ mainPc = "built" =>
       /\ Range(model.masquerades) = Range(trustedMasquerades)
       /\ Len(model.masquerades) = Len(trustedMasquerades)
       /\ { castats[ca].Cert : ca \in Range(model.cas) } = DOMAIN trustedCAs
       /\ \A m \in Range(model.masquerades) :
            \E ca \in Range(model.cas) : castats[ca].Cert = CertOf(m)

\* the model was built from a stream of which one masquerade was kept and
\* another one dropped
C2_KeptAndDropped ==
  /\ mainPc = "built"
  /\ \E m \in Range(allMasquerades) : m \in Range(model.masquerades)
  /\ \E m \in Range(allMasquerades) : m \notin Range(model.masquerades)

(***************************************************************************)
(* C3.  masqueradesCh is closed only after domainsCh was closed and every  *)
(* worker has left its loop (so no worker still probes or holds a result   *)
(* to send); the frequency and filtering phase starts only after that      *)
(* close, and it then works on the full count: every successful probe has  *)
(* been counted.                                                           *)
(***************************************************************************)
C3_DiscoveryBarrier ==
  /\ masqueradesChClosed =>
       /\ domainsChClosed
       /\ \A w \in Workers : worker[w].pc = "done"
  /\ Filtering =>
       /\ masqueradesChClosed
       /\ count = Cardinality({ i \in DOMAIN probes : Succeeded(i) })
       /\ \A i \in DOMAIN probes : Succeeded(i) => probes[i].sent = 1

\* the filtering phase runs after a stream of at least two results that the
\* whole pool produced
C3_FilteredAfterAllProbes ==
  /\ mainPc = "filter"
  /\ count >= 2
  /\ count = Len(domains)

(***************************************************************************)
(* C4.  No failure of a single probe (dial error, empty verified chain,    *)
(* malformed certificate) aborts the process: whenever a probe has         *)
(* failed, no goroutine has panicked.                                      *)
(***************************************************************************)
C4_ProbeFailuresNonFatal ==
  (\E i \in DOMAIN probes : probes[i].failed) => ~panicked

(***************************************************************************)
(* C5.  A blacklisted domain is never dialed, and no masquerade for it is  *)
(* held by a worker, in the stream, in the filtered list or in the model.  *)
(***************************************************************************)
C5_BlacklistedNeverDialed ==
  /\ \A i \in DOMAIN domains :
       domains[i] \in blacklist => probes[i].dials = 0 /\ probes[i].sent = 0
  /\ \A w \in Workers :
       worker[w].pc = "send" => worker[w].masq.Domain \notin blacklist
  /\ \A m \in Range(allMasquerades) \cup Range(trustedMasquerades)
                \cup Range(model.masquerades) :
       m.Domain \notin blacklist

\* a worker received a blacklisted domain, and the run went on to build a
\* model that holds a masquerade of another domain
C5_BlacklistedSkipped ==
  /\ mainPc = "built"
  /\ \E i \in DOMAIN domains :
       domains[i] \in blacklist /\ probes[i].taken = 1
  /\ model.masquerades # <<>>

(***************************************************************************)
(* C6.  With zero successful probes the run ends with empty trusted-CA and *)
(* trusted-masquerade lists, in coalesceMasquerades' results and in the    *)
(* model, without a panic; and no frequency is ever the result of a        *)
(* division by zero (no freq is +Inf or NaN).                              *)
(***************************************************************************)
C6_NoProbesEmptyModel ==
  /\ \A i \in DOMAIN castats : castats[i].freq.cls = "fin"
  /\ (Filtering /\ \A i \in DOMAIN probes : ~Succeeded(i)) =>
       /\ ~panicked
       /\ count = 0
       /\ trustedCAs = EmptyMap
       /\ trustedMasquerades = <<>>
       /\ model.cas = <<>>
       /\ model.masquerades = <<>>

\* the model was built after a run in which one domain was blacklisted,
\* another one failed its probe, and none succeeded
C6_AllProbesFailed ==
  /\ mainPc = "built"
  /\ \A i \in DOMAIN probes : ~Succeeded(i)
  /\ \E i \in DOMAIN probes : probes[i].failed
  /\ \E i \in DOMAIN probes : probes[i].taken = 1 /\ probes[i].dials = 0

(***************************************************************************)
(* C7, as stated.  With at least one success, each CA's relative frequency *)
(* equals occurrences * 100 / count, lies in [0, 100], and the frequencies *)
(* of all CAs seen sum to 100.                                             *)
(***************************************************************************)
InPercentRange(f) ==
  /\ f.cls = "fin"
  /\ f.i >= 0
  /\ f.i < 100 \/ f = FloatFromInt(100)

C7_ExactFrequencies ==
  (Filtering /\ count >= 1) =>
    /\ \A cert \in DOMAIN allCAs :
         LET f == castats[allCAs[cert]].freq
         IN /\ FixMulInt(f, count) = FloatFromInt(Occurrences(cert) * 100)
            /\ InPercentRange(f)
    /\ FixSum(SeenFreqs(DOMAIN allCAs)) = FloatFromInt(100)

(***************************************************************************)
(* C7, amended.  With at least one success, each CA's relative frequency   *)
(* is occurrences * 100 / count rounded to a float64: it is within 2^-47   *)
(* of the quotient, and is the quotient itself when count divides          *)
(* occurrences * 100; it lies in [0, 100]; the occurrences of all CAs sum  *)
(* to count; and the frequencies of the n CAs seen sum to 100 up to that   *)
(* rounding, i.e. within n * 2^-47.                                        *)
(***************************************************************************)
RECURSIVE SumOccurrences(_)
SumOccurrences(certs) ==
  IF certs = {} THEN 0
  ELSE LET c == CHOOSE x \in certs : TRUE
       IN Occurrences(c) + SumOccurrences(certs \ {c})

C7_RoundedFrequencies ==
  (Filtering /\ count >= 1) =>
    /\ \A cert \in DOMAIN allCAs :
         LET f == castats[allCAs[cert]].freq
             n == Occurrences(cert) * 100
         IN /\ WithinUnits(FixMulInt(f, count), n, 32 * count)
            /\ n % count = 0 => f = FloatFromInt(n \div count)
            /\ InPercentRange(f)
    /\ SumOccurrences(DOMAIN allCAs) = count
    /\ WithinUnits(FixSum(SeenFreqs(DOMAIN allCAs)), 100,
                   32 * Cardinality(DOMAIN allCAs))

\* frequencies were computed that are not exact quotients (thirds)
C7_RoundingHappened ==
  /\ mainPc = "built"
  /\ count >= 1
  /\ \E cert \in DOMAIN allCAs : (Occurrences(cert) * 100) % count # 0

(***************************************************************************)
(* C8.  In the model that buildModel produced, the masquerades are in      *)
(* ascending order of domain name and the CAs in descending order of       *)
(* relative frequency.                                                     *)
(***************************************************************************)
C8_ModelSorted ==
  mainPc = "built" =>
    /\ \A i, j \in DOMAIN model.masquerades :
         i < j => ~StrLess(model.masquerades[j].Domain,
                           model.masquerades[i].Domain)
    /\ \A i, j \in DOMAIN model.cas :
         i < j => ~FloatGT(castats[model.cas[j]].freq,
                           castats[model.cas[i]].freq)

\* the model holds two CAs of different frequency, and two of its
\* masquerades arrived in descending order of domain
C8_SortedOutOfOrderInput ==
  /\ mainPc = "built"
  /\ \E a, b \in Range(model.cas) : castats[a].freq # castats[b].freq
  /\ \E i, j \in DOMAIN allMasquerades :
       /\ i < j
       /\ { allMasquerades[i], allMasquerades[j] }
            \subseteq Range(model.masquerades)
       /\ StrLess(allMasquerades[j].Domain, allMasquerades[i].Domain)

(***************************************************************************)
(* C9.  Every masquerade of the model points to the castat that the        *)
(* trusted-CA list holds for its certificate, so the frequency read        *)
(* through the masquerade's RootCA is the one computed for that CA.        *)
(***************************************************************************)
C9_MasqueradesShareCAStat ==
  mainPc = "built" =>
    \A m \in Range(model.masquerades) :
      /\ m.RootCA = trustedCAs[CertOf(m)]
      /\ castats[m.RootCA].freq = castats[trustedCAs[CertOf(m)]].freq

(***************************************************************************)
(* C10.  Every entry of the domain list that feedDomains has passed was    *)
(* received by exactly one worker, and none of the others by any; an       *)
(* entry is dialed at most once and yields at most one masquerade; an      *)
(* entry whose probe failed yields none.                                   *)
(***************************************************************************)
C10_NoRetries ==
  /\ \A i \in DOMAIN probes :
       /\ probes[i].taken = (IF i < feedIdx THEN 1 ELSE 0)
       /\ probes[i].dials <= probes[i].taken
       /\ probes[i].sent <= probes[i].dials
       /\ probes[i].failed =>
            /\ probes[i].sent = 0
            /\ \A w \in Workers :
                 worker[w].pc = "send" => worker[w].masq.RootCA # i
            /\ \A m \in Range(allMasquerades) : m.RootCA # i
  /\ Len(allMasquerades) =
       Cardinality({ i \in DOMAIN probes : probes[i].sent = 1 })

\* the whole list was fed; one entry failed its probe and another one made
\* it into the stream
C10_FailedOnceAndDropped ==
  /\ feederPc = "done"
  /\ \E i \in DOMAIN probes :
       probes[i].failed /\ probes[i].dials = 1 /\ probes[i].sent = 0
  /\ \E i \in DOMAIN probes : probes[i].sent = 1

(***************************************************************************)
(* C11, as stated.  The end-to-end scenario: the domain list is            *)
(* [a, b, blacklisted], the blacklist is [blacklisted], the threshold is   *)
(* 3.0, and a and b present the same root CA.  The run ends with that CA   *)
(* trusted at relative frequency 80.0 (4 of 5 probe attempts, one attempt  *)
(* having failed), exactly two masquerades in the model, and the           *)
(* blacklisted domain never dialed.                                        *)
(* In the model a is "a", b is "b" and the blacklisted domain is "ab".     *)
(***************************************************************************)
ScenarioDomains == << <<97>>, <<98>>, <<97, 98>> >>

\* the scenario's inputs, and the run has built its model
ScenarioBuilt ==
  /\ domains = ScenarioDomains
  /\ blacklist = { <<97, 98>> }
  /\ minFreq = FloatFromInt(3)
  /\ mainPc = "built"

\* a and b both presented the same root CA
ScenarioSameCA ==
  /\ Succeeded(1)
  /\ Succeeded(2)
  /\ castats[1].Cert = castats[2].Cert

\* all dials of the run
RECURSIVE TotalDials(_)
TotalDials(i) == IF i = 0 THEN 0 ELSE probes[i].dials + TotalDials(i - 1)

C11_ScenarioAsStated ==
  (ScenarioBuilt /\ ScenarioSameCA) =>
    /\ TotalDials(Len(domains)) = 5
    /\ Len(model.cas) = 1
    /\ castats[model.cas[1]].freq = FloatFromInt(80)
    /\ Len(model.masquerades) = 2
    /\ probes[3].dials = 0

(***************************************************************************)
(* C11, amended.  In that scenario every domain is dialed at most once and *)
(* the blacklisted one never, so there are two probe attempts, not five;   *)
(* a failed attempt counts for nothing.  When a and b both present the     *)
(* same root CA, the run ends with that CA trusted at relative frequency   *)
(* 100.0 and exactly two masquerades (a, then b) in the model; when one of *)
(* the two attempts fails and the other succeeds, the CA of the other is   *)
(* trusted at 100.0 with exactly one masquerade in the model.              *)
(***************************************************************************)
C11_ScenarioAsCoded ==
  ScenarioBuilt =>
    /\ probes[3].dials = 0
    /\ TotalDials(Len(domains)) = 2
    /\ ScenarioSameCA =>
         /\ Len(model.cas) = 1
         /\ castats[model.cas[1]].Cert = castats[1].Cert
         /\ castats[model.cas[1]].freq = FloatFromInt(100)
         /\ Len(model.masquerades) = 2
         /\ model.masquerades[1].Domain = <<97>>
         /\ model.masquerades[2].Domain = <<98>>
    /\ (\E i, j \in 1 .. 2 : Succeeded(i) /\ probes[j].failed) =>
         /\ Len(model.cas) = 1
         /\ castats[model.cas[1]].freq = FloatFromInt(100)
         /\ Len(model.masquerades) = 1

\* the scenario has run to its end with a and b on the same root CA
C11_ScenarioRan == ScenarioBuilt /\ ScenarioSameCA /\ probes[3].taken = 1

(***************************************************************************)
(* C18.  Coalescing loses and duplicates nothing.  While the range loop    *)
(* of coalesceMasquerades runs, count is the number of results received,   *)
(* allCAs has one entry per distinct PEM received (keyed by that PEM, so   *)
(* two root CAs of the same common name and different PEM are two          *)
(* entries), the occurrence count (freq) of each entry is the number of    *)
(* results that carried its PEM, and the occurrence counts sum to count.   *)
(* Once the results channel is closed, count is the number of successful   *)
(* probes and every successful probe, and no other, appears exactly once   *)
(* in allMasquerades.                                                      *)
(***************************************************************************)
\* how often the masquerade of the probe of entry i is in the stream
TimesInStream(i) ==
  Cardinality({ k \in DOMAIN allMasquerades : allMasquerades[k].RootCA = i })

C18_CoalescingLossless ==
  /\ count = Len(allMasquerades)
  /\ DOMAIN allCAs = { CertOf(m) : m \in Range(allMasquerades) }
  /\ mainPc = "range" =>
       /\ \A cert \in DOMAIN allCAs :
            /\ castats[allCAs[cert]].Cert = cert
            /\ castats[allCAs[cert]].freq = FloatFromInt(Occurrences(cert))
       /\ FixSum(SeenFreqs(DOMAIN allCAs)) = FloatFromInt(count)
  /\ masqueradesChClosed =>
       /\ count = Cardinality({ i \in DOMAIN probes : Succeeded(i) })
       /\ \A i \in DOMAIN probes :
            TimesInStream(i) = (IF Succeeded(i) THEN 1 ELSE 0)

\* the results channel is exhausted after three results, two of one PEM and
\* one of another PEM of the same common name
C18_SameNameTwoPEMs ==
  /\ masqueradesChClosed
  /\ mainPc = "range"
  /\ count = 3
  /\ \E c, d \in DOMAIN allCAs :
       /\ c # d
       /\ castats[allCAs[c]].CommonName = castats[allCAs[d]].CommonName
       /\ Occurrences(c) = 2
       /\ Occurrences(d) = 1

(***************************************************************************)
(* C17.  The discovery pipeline terminates without deadlock: for every     *)
(* domain list (the empty one and those shorter than the worker pool       *)
(* included) and every mix of blacklisted, failing and succeeding probes,  *)
(* a run in which every probe returns ends with all workers gone, the      *)
(* results channel closed and coalesceMasquerades returned.  Stated on     *)
(* finite runs: a state in which no step is possible is such an end.       *)
(***************************************************************************)
PipelineDone ==
  /\ \A w \in Workers : worker[w].pc = "done"
  /\ masqueradesChClosed
  /\ Returned

C17_PipelineTerminates == PipelineDone \/ ENABLED Next

\* C17 as a property of the fair runs, and what the code does keep of it:
\* a fair run ends as claimed unless a goroutine panics (see C4)
C17_EventuallyDone == <>PipelineDone
C17_DoneUnlessPanic == <>(PipelineDone \/ panicked)

(***************************************************************************)
(* Part 2: logging.NonStopWriter (src/unnamed/part_000, package logging).  *)
(* nsw is one nonStopWriter over the wrapped writers nsw.writers and the   *)
(* call of its Write that is under way: the bytes p, the index i of the    *)
(* range loop, the calls made on the wrapped writers, and the result.      *)
(***************************************************************************)
\* most writers wrapped, and the longest p written
MaxWriters == 2
MaxLen == 2

\* the wrapped writers, and the bytes of p
Writers == { "stdout", "file" }
Bytes == { 120 }

\* what Write(p) of a wrapped writer can return: all of p written, a short
\* write, or a failure that wrote nothing
WriteResults(p) ==
  { [n |-> Len(p), err |-> "nil"] }
    \cup { [n |-> k, err |-> "io.ErrShortWrite"] : k \in 0 .. Len(p) - 1 }
    \cup { [n |-> 0, err |-> "EIO"] }

NoReturn == [n |-> -1, err |-> "none"]

exceptWriter == << genconfig, dims, reporter, client, leaf, logging >>

\* NonStopWriter(writers...) has copied the writers into the new object
WriterInit ==
  /\ GenconfigAtRest
  /\ dims = NoDims
  /\ reporter = NoReporter
  /\ client = NoClient
  /\ leaf = NoLeaf
  /\ logging = NoLogging
  /\ nsw \in { [pc |-> "idle", writers |-> ws, p |-> <<>>, i |-> 0,
                calls |-> <<>>, ret |-> NoReturn] :
               ws \in SeqsUpTo(Writers, MaxWriters) }

\* a caller enters Write(p)
WriteCall ==
  /\ nsw.pc \in { "idle", "returned" }
  /\ \E p \in SeqsUpTo(Bytes, MaxLen) :
       nsw' = [nsw EXCEPT !.pc = "range", !.p = p, !.i = 1, !.calls = <<>>,
                          !.ret = NoReturn]
  /\ UNCHANGED exceptWriter

\* mutant of WriteForward: the loop ends at the first writer that fails,
\* as that of io.MultiWriter does
WriteForwardUntilError ==
  /\ nsw.pc = "range"
  /\ nsw.i <= Len(nsw.writers)
  /\ \E res \in WriteResults(nsw.p) :
       nsw' = [nsw EXCEPT
                 !.calls = Append(@, [w |-> nsw.writers[nsw.i],
                                      p |-> nsw.p, res |-> res]),
                 !.i = IF res.err = "nil" THEN @ + 1
                       ELSE Len(nsw.writers) + 1]
  /\ UNCHANGED exceptWriter

\* one iteration of "for _, w := range t.writers { w.Write(p) }": the
\* result of the wrapped writer is dropped
WriteForward ==
  /\ nsw.pc = "range"
  /\ nsw.i <= Len(nsw.writers)
  /\ \E res \in WriteResults(nsw.p) :
       nsw' = [nsw EXCEPT
                 !.calls = Append(@, [w |-> nsw.writers[nsw.i],
                                      p |-> nsw.p, res |-> res]),
                 !.i = @ + 1]
  /\ UNCHANGED exceptWriter

\* "return len(p), nil"
WriteReturn ==
  /\ nsw.pc = "range"
  /\ nsw.i > Len(nsw.writers)
  /\ nsw' = [nsw EXCEPT !.pc = "returned",
                        !.ret = [n |-> Len(nsw.p), err |-> "nil"]]
  /\ UNCHANGED exceptWriter

WriterNext ==
  \/ WriteCall
  \/ WriteForward
  \/ WriteReturn

WriterSpec == WriterInit /\ [][WriterNext]_vars

(***************************************************************************)
(* C15.  The writer of NonStopWriter never fails: Write(p) calls Write of  *)
(* every wrapped writer with p, in the order in which they were given,     *)
(* also after an earlier one has returned an error or written short, and   *)
(* returns (len(p), nil).                                                  *)
(***************************************************************************)
C15_NonStopWrite ==
  /\ nsw.pc = "range" =>
       /\ Len(nsw.calls) = nsw.i - 1
       /\ nsw.i <= Len(nsw.writers) + 1
  /\ nsw.pc = "returned" =>
       /\ Len(nsw.calls) = Len(nsw.writers)
       /\ nsw.ret = [n |-> Len(nsw.p), err |-> "nil"]
  /\ nsw.pc \in { "range", "returned" } =>
       \A k \in DOMAIN nsw.calls :
         /\ nsw.calls[k].w = nsw.writers[k]
         /\ nsw.calls[k].p = nsw.p

\* a Write over two writers has returned after the first writer failed and
\* the second one wrote short
C15_ReturnedAfterErrors ==
  /\ nsw.pc = "returned"
  /\ Len(nsw.writers) = 2
  /\ nsw.calls[1].res.err = "EIO"
  /\ nsw.calls[2].res.err = "io.ErrShortWrite"
  /\ nsw.ret.n = 2

(***************************************************************************)
(* Part 3: statreporter.DimGroup (src/statreporter/model.go).  dims.heap   *)
(* holds the DimGroup objects made so far, a *DimGroup being an index into *)
(* it and a dims map a function from keys to values; dims.last records the *)
(* last call of And: its receiver, its arguments, the receiver's dims      *)
(* before the call, and the *DimGroup returned.                            *)
(***************************************************************************)
\* most DimGroup objects made
MaxGroups == 3

\* the keys and values of dimensions
Keys == { "country", "user" }
Values == { "us", "de" }

NoCall == [dg |-> 0, key |-> "", value |-> "", before |-> EmptyMap,
           result |-> 0]

exceptDims == << genconfig, nsw, reporter, client, leaf, logging >>

DimInit ==
  /\ GenconfigAtRest
  /\ nsw = NoWriter
  /\ reporter = NoReporter
  /\ client = NoClient
  /\ leaf = NoLeaf
  /\ logging = NoLogging
  /\ dims = [pc |-> "on", heap |-> <<>>, last |-> NoCall]

\* "for k, v := range dg.dims { newDims[k] = v }", in any order of the keys
RECURSIVE CopyDims(_, _, _)
CopyDims(newDims, from, keys) ==
  IF keys = {} THEN newDims
  ELSE LET k == CHOOSE x \in keys : TRUE
       IN CopyDims(MapPut(newDims, k, from[k]), from, keys \ {k})

\* Dim(key, value)
Dim ==
  /\ dims.pc = "on"
  /\ Len(dims.heap) < MaxGroups
  /\ \E key \in Keys, value \in Values :
       dims' = [dims EXCEPT
                  !.heap = Append(@, MapPut(EmptyMap, key, value)),
                  !.last = NoCall]
  /\ UNCHANGED exceptDims

\* dg.And(key, value): newDims starts as {key: value}, then the receiver's
\* dims are copied into it
And ==
  /\ dims.pc = "on"
  /\ Len(dims.heap) < MaxGroups
  /\ \E dg \in DOMAIN dims.heap, key \in Keys, value \in Values :
       LET newDims == MapPut(EmptyMap, key, value)
           copied == CopyDims(newDims, dims.heap[dg], DOMAIN dims.heap[dg])
       IN dims' = [dims EXCEPT
                     !.heap = Append(@, copied),
                     !.last = [dg |-> dg, key |-> key, value |-> value,
                               before |-> dims.heap[dg],
                               result |-> Len(dims.heap) + 1]]
  /\ UNCHANGED exceptDims

DimNext ==
  \/ Dim
  \/ And

DimSpec == DimInit /\ [][DimNext]_vars

(***************************************************************************)
(* C16.  dg.And(key, value) returns a new DimGroup that holds key=value    *)
(* together with the dims the receiver had, and leaves the receiver as it  *)
(* was; this for every key, also one that the receiver holds with another  *)
(* value.                                                                  *)
(***************************************************************************)
\* the last And left its receiver alone and returned a new object whose keys
\* are the receiver's and the given one, the receiver's other dims kept
AndKeepsReceiver ==
  LET c == dims.last
      r == dims.heap[c.result]
  IN /\ c.result # c.dg
     /\ dims.heap[c.dg] = c.before
     /\ DOMAIN r = DOMAIN c.before \cup { c.key }
     /\ \A k \in DOMAIN c.before \ { c.key } : r[k] = c.before[k]

C16_AndAddsDim ==
  (dims.pc = "on" /\ dims.last # NoCall) =>
    /\ AndKeepsReceiver
    /\ dims.heap[dims.last.result][dims.last.key] = dims.last.value

\* what the code does keep of C16: the frame, and the given dim when the
\* receiver does not hold the key or holds it with the same value
C16_AndAddsFreshDim ==
  (dims.pc = "on" /\ dims.last # NoCall) =>
    /\ AndKeepsReceiver
    /\ LET c == dims.last
       IN IF c.key \in DOMAIN c.before
          THEN dims.heap[c.result][c.key] = c.before[c.key]
          ELSE dims.heap[c.result][c.key] = c.value

(***************************************************************************)
(* Part 4: statreporter.ClientReporter (src/statreporter/client.go) after  *)
(* Start.  Time is counted in seconds by reporter.now.  A time.Timer is    *)
(* its deadline timerAt (Stopped when it is not armed) and its channel     *)
(* timer.C, which has room for one value (timerC is 1 when it holds one);  *)
(* Reset arms the timer anew and leaves a value in timer.C where it is.    *)
(* The goroutine of processTraversalStats takes no time for a step: time   *)
(* passes only while it is blocked in its select.                          *)
(* The counters of a TraversalOutcome are uint64; the values of the model  *)
(* stay far from 2^64, so their sums do not wrap.                          *)
(***************************************************************************)
\* CLIENT_INTERVAL, in seconds
CLIENT_INTERVAL == 5

\* the time up to which a run is followed, and the most outcomes sent
MaxTime == 11
MaxOutcomes == 3

Stopped == -1
Never == -1

Counters == { "AnswererOnline", "AnswererGot5Tuple", "OffererGot5Tuple",
              "TraversalSucceeded", "ConnectionSucceeded",
              "DurationOfSuccessfulTraversal" }

TraversalOutcome(country, online, got, succeeded, duration) ==
  [AnswererCountry |-> country, AnswererOnline |-> online,
   AnswererGot5Tuple |-> got, OffererGot5Tuple |-> got,
   TraversalSucceeded |-> succeeded, ConnectionSucceeded |-> succeeded,
   DurationOfSuccessfulTraversal |-> duration]

\* the outcomes that clients send
Outcomes == { TraversalOutcome("us", 1, 1, 1, 2),
              TraversalOutcome("us", 1, 0, 0, 0),
              TraversalOutcome("de", 1, 1, 1, 3) }

NoPost == [at |-> Never, stats |-> EmptyMap, from |-> EmptyMap]

exceptReporter == << genconfig, nsw, dims, client, leaf, logging >>

\* Start has made the channel and the map, and processTraversalStats has
\* run "timer := time.NewTimer(0)" and "var timerCh <-chan time.Time"
ReporterInit ==
  /\ GenconfigAtRest
  /\ nsw = NoWriter
  /\ dims = NoDims
  /\ client = NoClient
  /\ leaf = NoLeaf
  /\ logging = NoLogging
  /\ reporter = [pc |-> "select", now |-> 0, timerAt |-> 0, timerC |-> 0,
                 timerCh |-> "nil", outcomesCh |-> <<>>,
                 traversalStats |-> EmptyMap, sent |-> 0,
                 firstReceivedAt |-> Never, firstPostedAt |-> Never,
                 pending |-> EmptyMap, ticks |-> <<>>, lastPost |-> NoPost]

\* o.coalesce(n), statement by statement: ConnectionSucceeded is added on
\* line 30 and again on line 32
coalesce(o, n) ==
  LET o1 == [o EXCEPT !.AnswererOnline = @ + n.AnswererOnline]
      o2 == [o1 EXCEPT !.AnswererGot5Tuple = @ + n.AnswererGot5Tuple]
      o3 == [o2 EXCEPT !.OffererGot5Tuple = @ + n.OffererGot5Tuple]
      o4 == [o3 EXCEPT !.ConnectionSucceeded = @ + n.ConnectionSucceeded]
      o5 == [o4 EXCEPT !.TraversalSucceeded = @ + n.TraversalSucceeded]
      o6 == [o5 EXCEPT !.ConnectionSucceeded = @ + n.ConnectionSucceeded]
  IN [o6 EXCEPT !.DurationOfSuccessfulTraversal =
                   @ + n.DurationOfSuccessfulTraversal]

\* a client sends an outcome: "reporter.OutcomesCh <- o" (the channel has
\* room for 100, which MaxOutcomes does not reach)
SendOutcome ==
  /\ reporter.pc = "select"
  /\ reporter.sent < MaxOutcomes
  /\ \E o \in Outcomes :
       reporter' = [reporter EXCEPT !.outcomesCh = Append(@, o),
                                    !.sent = @ + 1]
  /\ UNCHANGED exceptReporter

\* the runtime fires the timer at its deadline: a value goes into timer.C
TimerFires ==
  /\ reporter.pc = "select"
  /\ reporter.timerAt # Stopped
  /\ reporter.now >= reporter.timerAt
  /\ reporter' = [reporter EXCEPT !.timerC = 1, !.timerAt = Stopped]
  /\ UNCHANGED exceptReporter

\* "case n := <-reporter.outcomesCh": the outcome is stored or coalesced;
\* on the first outcome "timer.Reset(CLIENT_INTERVAL)", "timerCh = timer.C"
ReceiveOutcome ==
  /\ reporter.pc = "select"
  /\ reporter.outcomesCh # <<>>
  /\ LET n == Head(reporter.outcomesCh)
         key == n.AnswererCountry
         stats == reporter.traversalStats
         found == key \in DOMAIN stats
     IN reporter' =
          [reporter EXCEPT
             !.outcomesCh = Tail(@),
             !.traversalStats =
                MapPut(@, key, IF found THEN coalesce(stats[key], n) ELSE n),
             !.pending =
                MapPut(@, key, IF key \in DOMAIN @ THEN Append(@[key], n)
                               ELSE << n >>),
             !.firstReceivedAt = IF @ = Never THEN reporter.now ELSE @,
             !.timerAt = IF reporter.timerCh = "nil"
                         THEN reporter.now + CLIENT_INTERVAL ELSE @,
             !.timerCh = "timer.C"]
  /\ UNCHANGED exceptReporter

\* "case <-timer.C": every entry of traversalStats is posted, the map is
\* made anew, and "timer.Reset(CLIENT_INTERVAL)"
TimerCase ==
  /\ reporter.pc = "select"
  /\ reporter.timerC = 1
  /\ reporter' =
       [reporter EXCEPT
          !.timerC = 0,
          !.traversalStats = EmptyMap,
          !.pending = EmptyMap,
          !.timerAt = reporter.now + CLIENT_INTERVAL,
          !.ticks = Append(@, reporter.now),
          !.lastPost = [at |-> reporter.now,
                        stats |-> reporter.traversalStats,
                        from |-> reporter.pending],
          !.firstPostedAt =
             IF @ = Never /\ reporter.firstReceivedAt # Never
             THEN reporter.now ELSE @]
  /\ UNCHANGED exceptReporter

\* a second passes while the goroutine is blocked in its select and no
\* timer is due
TimePasses ==
  /\ reporter.pc = "select"
  /\ reporter.now < MaxTime
  /\ reporter.outcomesCh = <<>>
  /\ reporter.timerC = 0
  /\ reporter.timerAt = Stopped \/ reporter.now < reporter.timerAt
  /\ reporter' = [reporter EXCEPT !.now = @ + 1]
  /\ UNCHANGED exceptReporter

ReporterNext ==
  \/ SendOutcome
  \/ TimerFires
  \/ ReceiveOutcome
  \/ TimerCase
  \/ TimePasses

ReporterSpec == ReporterInit /\ [][ReporterNext]_vars

(***************************************************************************)
(* C19.  The first TraversalOutcome that processTraversalStats receives is *)
(* reported immediately, without waiting for the interval: it is posted in *)
(* the second in which it was received; after that the coalesced outcomes  *)
(* are reported once per CLIENT_INTERVAL.                                  *)
(***************************************************************************)
\* the reports from the one with the first outcome on are CLIENT_INTERVAL
\* apart
OncePerInterval ==
  \A k \in 2 .. Len(reporter.ticks) :
    reporter.ticks[k - 1] >= reporter.firstPostedAt =>
      reporter.ticks[k] - reporter.ticks[k - 1] = CLIENT_INTERVAL

C19_FirstReportedImmediately ==
  (reporter.pc = "select" /\ reporter.firstReceivedAt # Never) =>
    /\ reporter.now > reporter.firstReceivedAt =>
         reporter.firstPostedAt = reporter.firstReceivedAt
    /\ reporter.firstPostedAt # Never => OncePerInterval

\* what the code does keep of C19: the first outcome is reported in the
\* second of its receipt or a whole interval later, and from then on the
\* reports are an interval apart
C19_FirstReportedWithinInterval ==
  (reporter.pc = "select" /\ reporter.firstReceivedAt # Never) =>
    /\ reporter.now > reporter.firstReceivedAt + CLIENT_INTERVAL =>
         reporter.firstPostedAt # Never
    /\ reporter.firstPostedAt # Never =>
         /\ reporter.firstPostedAt \in
              { reporter.firstReceivedAt,
                reporter.firstReceivedAt + CLIENT_INTERVAL }
         /\ OncePerInterval

(***************************************************************************)
(* C20.  Traversal outcomes are coalesced faithfully: in the report posted *)
(* at a timer tick, every counter of the outcome of an answerer country is *)
(* the sum of that counter over the outcomes received for that country     *)
(* since the tick before, and every received outcome goes into exactly one *)
(* report: the map holds the outcomes received since the last tick and no  *)
(* others.                                                                 *)
(***************************************************************************)
RECURSIVE SumOf(_, _)
SumOf(c, outcomes) ==
  IF outcomes = <<>> THEN 0 ELSE Head(outcomes)[c] + SumOf(c, Tail(outcomes))

C20_PostedIsSum ==
  reporter.pc = "select" =>
    /\ DOMAIN reporter.traversalStats = DOMAIN reporter.pending
    /\ DOMAIN reporter.lastPost.stats = DOMAIN reporter.lastPost.from
    /\ \A country \in DOMAIN reporter.lastPost.stats :
         \A c \in Counters :
           reporter.lastPost.stats[country][c] =
             SumOf(c, reporter.lastPost.from[country])

\* what the code does keep of C20: all counters but ConnectionSucceeded are
\* the sums, and ConnectionSucceeded counts every outcome but the first of
\* its country twice
C20_PostedIsSumButConnections ==
  reporter.pc = "select" =>
    /\ DOMAIN reporter.traversalStats = DOMAIN reporter.pending
    /\ DOMAIN reporter.lastPost.stats = DOMAIN reporter.lastPost.from
    /\ \A country \in DOMAIN reporter.lastPost.stats :
         LET got == reporter.lastPost.stats[country]
             from == reporter.lastPost.from[country]
         IN /\ \A c \in Counters \ { "ConnectionSucceeded" } :
                 got[c] = SumOf(c, from)
            /\ got.ConnectionSucceeded =
                 2 * SumOf("ConnectionSucceeded", from)
                   - Head(from).ConnectionSucceeded

(***************************************************************************)
(* Part 5: proxy.Client (src/proxy/client.go).  client.pc is the place of  *)
(* Run, client.steps the calls Run has made with their results, client.ret *)
(* the error Run returned, and client.handled the requests that the        *)
(* Director of the reverse proxy has seen, each with whether it was passed *)
(* to Protocol.RewriteRequest.                                             *)
(* A host of a request is the sequence of the pieces of req.Host, with     *)
(* ":" a piece of its own, so that strings.Split(addr, ":")[0] is the      *)
(* pieces before the first ":".                                            *)
(***************************************************************************)
\* the hosts of requests, each with whether it names the loopback interface
Hosts ==
  { [addr |-> << "127.0.0.1" >>, loopback |-> TRUE],
    [addr |-> << "127.0.0.1", ":", "8080" >>, loopback |-> TRUE],
    [addr |-> << "localhost", ":", "8080" >>, loopback |-> TRUE],
    [addr |-> << "[", ":", ":", "1", "]", ":", "8080" >>, loopback |-> TRUE],
    [addr |-> << "10.0.0.5", ":", "80" >>, loopback |-> FALSE],
    [addr |-> << "example.com" >>, loopback |-> FALSE],
    [addr |-> << "nosuch.invalid" >>, loopback |-> FALSE] }

\* strings.Split(addr, ":")[0]
RECURSIVE SplitFirst(_)
SplitFirst(addr) ==
  IF addr = <<>> \/ Head(addr) = ":" THEN <<>>
  ELSE << Head(addr) >> \o SplitFirst(Tail(addr))

\* what net.ResolveIPAddr("ip4", name) can return: an IPv4 literal is
\* parsed, a name is looked up (a lookup can fail), anything else is an
\* error
ResolveIPAddr(name) ==
  CASE name = << "127.0.0.1" >> -> { [err |-> "nil", ip |-> "127.0.0.1"] }
    [] name = << "10.0.0.5" >> -> { [err |-> "nil", ip |-> "10.0.0.5"] }
    [] name = << "localhost" >> ->
         { [err |-> "nil", ip |-> "127.0.0.1"],
           [err |-> "lookup failed", ip |-> ""] }
    [] name = << "example.com" >> ->
         { [err |-> "nil", ip |-> "93.184.216.34"],
           [err |-> "lookup failed", ip |-> ""] }
    [] OTHER -> { [err |-> "no such host", ip |-> ""] }

\* net.IP.IsLoopback on an IPv4 address: 127.0.0.0/8
IsLoopback(ip) == ip = "127.0.0.1"

\* mutant of isNotLoopback: a host that does not resolve counts as not
\* loopback
isNotLoopbackOrUnresolved(resolved) ==
  resolved.err # "nil" \/ ~IsLoopback(resolved.ip)

\* "return err == nil && !ip.IP.IsLoopback()"
isNotLoopback(resolved) == resolved.err = "nil" /\ ~IsLoopback(resolved.ip)

exceptClient == << genconfig, nsw, dims, reporter, leaf, logging >>

\* a Client as configured, before Run
ClientInit ==
  /\ GenconfigAtRest
  /\ nsw = NoWriter
  /\ dims = NoDims
  /\ reporter = NoReporter
  /\ leaf = NoLeaf
  /\ logging = NoLogging
  /\ client \in { [pc |-> "InitCommonCerts", ShouldProxyLoopback |-> b,
                   steps |-> <<>>, ret |-> "none", handled |-> {}] :
                  b \in BOOLEAN }

\* Run calls "call", which ends with or without an error, and goes on at
\* "pc" or returns "ret"
RunStep(call, ok, pc, ret) ==
  client' = [client EXCEPT
               !.steps = Append(@, [call |-> call, ok |-> ok]),
               !.pc = pc, !.ret = ret]

\* "err := client.CertContext.InitCommonCerts()" without an error
InitCommonCerts ==
  /\ client.pc = "InitCommonCerts"
  /\ RunStep("InitCommonCerts", TRUE,
             "InstallCACertToTrustStoreIfNecessary", client.ret)
  /\ UNCHANGED exceptClient

\* InitCommonCerts fails: "return fmt.Errorf(...)"
InitCommonCertsFail ==
  /\ client.pc = "InitCommonCerts"
  /\ RunStep("InitCommonCerts", FALSE, "returned",
             "Unable to init common certs")
  /\ UNCHANGED exceptClient

\* "client.InstallCACertToTrustStoreIfNecessary()": an error of the
\* CertContext is logged, and Run goes on either way
InstallCACertToTrustStoreIfNecessary ==
  /\ client.pc = "InstallCACertToTrustStoreIfNecessary"
  /\ \E ok \in BOOLEAN :
       RunStep("InstallCACertToTrustStoreIfNecessary", ok,
               "buildReverseProxy", client.ret)
  /\ UNCHANGED exceptClient

\* "client.buildReverseProxy()"
buildReverseProxy ==
  /\ client.pc = "buildReverseProxy"
  /\ RunStep("buildReverseProxy", TRUE, "buildMITMHandler", client.ret)
  /\ UNCHANGED exceptClient

\* "err = client.buildMITMHandler()" without an error
buildMITMHandler ==
  /\ client.pc = "buildMITMHandler"
  /\ RunStep("buildMITMHandler", TRUE, "ListenAndServe", client.ret)
  /\ UNCHANGED exceptClient

\* mutant of buildMITMHandlerFail: the error is logged and Run goes on
buildMITMHandlerFailLogged ==
  /\ client.pc = "buildMITMHandler"
  /\ RunStep("buildMITMHandler", FALSE, "ListenAndServe", client.ret)
  /\ UNCHANGED exceptClient

\* mitm.Wrap fails: "return fmt.Errorf(...)"
buildMITMHandlerFail ==
  /\ client.pc = "buildMITMHandler"
  /\ RunStep("buildMITMHandler", FALSE, "returned",
             "Unable to build MITM handler")
  /\ UNCHANGED exceptClient

\* "return httpServer.ListenAndServe()": the server listens on client.Addr
\* and accepts connections
ListenAndServe ==
  /\ client.pc = "ListenAndServe"
  /\ RunStep("ListenAndServe", TRUE, "serving", client.ret)
  /\ UNCHANGED exceptClient

\* ListenAndServe cannot listen on client.Addr and returns its error
ListenAndServeFail ==
  /\ client.pc = "ListenAndServe"
  /\ RunStep("ListenAndServe", FALSE, "returned", "listen failed")
  /\ UNCHANGED exceptClient

\* the Director of the reverse proxy gets a request of an accepted
\* connection: "if client.ShouldProxyLoopback || isNotLoopback(req.Host)
\* { client.Protocol.RewriteRequest(req) }"
Director ==
  /\ client.pc = "serving"
  /\ \E host \in Hosts :
       \E resolved \in ResolveIPAddr(SplitFirst(host.addr)) :
         LET rewrite == client.ShouldProxyLoopback \/ isNotLoopback(resolved)
         IN client' = [client EXCEPT
                         !.handled = @ \cup { [Host |-> host,
                                               rewritten |-> rewrite] }]
  /\ UNCHANGED exceptClient

\* the serving loop ends (Accept fails): ListenAndServe returns its error
ServeEnds ==
  /\ client.pc = "serving"
  /\ client' = [client EXCEPT !.pc = "returned", !.ret = "accept failed"]
  /\ UNCHANGED exceptClient

ClientNext ==
  \/ InitCommonCerts
  \/ InitCommonCertsFail
  \/ InstallCACertToTrustStoreIfNecessary
  \/ buildReverseProxy
  \/ buildMITMHandler
  \/ buildMITMHandlerFail
  \/ ListenAndServe
  \/ ListenAndServeFail
  \/ Director
  \/ ServeEnds

ClientSpec == ClientInit /\ [][ClientNext]_vars

(***************************************************************************)
(* C12.  Run starts the client strictly in the order InitCommonCerts,      *)
(* InstallCACertToTrustStoreIfNecessary, buildReverseProxy,                *)
(* buildMITMHandler, ListenAndServe.  When InitCommonCerts or              *)
(* buildMITMHandler fails, Run returns an error, makes no further call and *)
(* never accepts a connection; the server listens, and requests are        *)
(* handled, only after all the earlier steps, the two that can stop Run    *)
(* without an error.  A failed installation into the trust store does not  *)
(* stop Run.                                                               *)
(***************************************************************************)
StartupOrder ==
  << "InitCommonCerts", "InstallCACertToTrustStoreIfNecessary",
     "buildReverseProxy", "buildMITMHandler", "ListenAndServe" >>

\* Run has called ListenAndServe, and the server did listen
Listened ==
  /\ Len(client.steps) = Len(StartupOrder)
  /\ client.steps[Len(StartupOrder)].ok

Fatal(call) == call \in { "InitCommonCerts", "buildMITMHandler" }

C12_StartupOrder ==
  client.pc # "off" =>
    /\ Len(client.steps) <= Len(StartupOrder)
    /\ \A k \in DOMAIN client.steps : client.steps[k].call = StartupOrder[k]
    /\ \A k \in DOMAIN client.steps :
         (Fatal(client.steps[k].call) /\ ~client.steps[k].ok) =>
           /\ Len(client.steps) = k
           /\ client.pc = "returned"
           /\ client.ret \notin { "none", "nil" }
           /\ client.handled = {}
    /\ (client.pc = "serving" \/ client.handled # {}) =>
         /\ Listened
         /\ client.steps[1].ok
         /\ client.steps[4].ok

\* the server serves requests although the installation into the trust
\* store had failed
C12_ServingAfterFailedInstall ==
  /\ client.pc = "serving"
  /\ client.handled # {}
  /\ ~client.steps[2].ok

\* Run has returned the error of buildMITMHandler
C12_StoppedAtMITMHandler ==
  /\ client.pc = "returned"
  /\ client.ret = "Unable to build MITM handler"

(***************************************************************************)
(* C13.  With ShouldProxyLoopback false, no request whose host is a        *)
(* loopback address (127.0.0.1, localhost, [::1], with or without a port)  *)
(* is passed to Protocol.RewriteRequest; with ShouldProxyLoopback true,    *)
(* every request is passed to it, the loopback ones like any other.        *)
(***************************************************************************)
C13_LoopbackNotRewritten ==
  client.pc # "off" =>
    \A req \in client.handled :
      /\ (~client.ShouldProxyLoopback /\ req.Host.loopback) => ~req.rewritten
      /\ client.ShouldProxyLoopback => req.rewritten

\* with ShouldProxyLoopback false the Director has left alone requests to
\* [::1]:8080 and to localhost:8080 and has rewritten one to 10.0.0.5:80
C13_LoopbackLeftAlone ==
  /\ client.pc = "serving"
  /\ ~client.ShouldProxyLoopback
  /\ \E a, b, c \in client.handled :
       /\ a.Host.addr = << "[", ":", ":", "1", "]", ":", "8080" >>
       /\ ~a.rewritten
       /\ b.Host.addr = << "localhost", ":", "8080" >>
       /\ ~b.rewritten
       /\ c.Host.addr = << "10.0.0.5", ":", "80" >>
       /\ c.rewritten

\* with ShouldProxyLoopback true the Director has rewritten a request to
\* 127.0.0.1:8080
C13_LoopbackProxied ==
  /\ client.pc = "serving"
  /\ client.ShouldProxyLoopback
  /\ \E a \in client.handled :
       a.Host.addr = << "127.0.0.1", ":", "8080" >> /\ a.rewritten

(***************************************************************************)
(* Part 6: the leaf certificates of the MITM handler.  client.go only      *)
(* builds the handler (mitm.Wrap, line 87); the issuance itself is not in  *)
(* src/, and is modelled from the specification: issueLeaf(hostname)       *)
(* returns the cached leaf of the hostname if there is one, else generates *)
(* one, caches and returns it, with a lock around the lookup-or-insert; a  *)
(* failure to generate fails that connection only.                         *)
(* leaf.cache maps a hostname to its cached certificate, leaf.lock is the  *)
(* handler that holds the lock (0: free), leaf.handler is the place of     *)
(* each connection handler in issueLeaf, and leaf.generated lists the      *)
(* certificates generated so far.                                          *)
(***************************************************************************)
\* connection handlers that run at the same time
MaxHandlers == 2

Handlers == 1 .. MaxHandlers
Hostnames == { "a.example", "b.example" }

NoCert == [hostname |-> "", serial |-> 0]
Idle == [pc |-> "idle", hostname |-> "", cert |-> NoCert]

exceptLeaf == << genconfig, nsw, dims, reporter, client, logging >>

LeafInit ==
  /\ GenconfigAtRest
  /\ nsw = NoWriter
  /\ dims = NoDims
  /\ reporter = NoReporter
  /\ client = NoClient
  /\ logging = NoLogging
  /\ leaf = [pc |-> "on", lock |-> 0, cache |-> EmptyMap,
             generated |-> {}, handler |-> [h \in Handlers |-> Idle]]

\* the certificates generated so far for a hostname
GeneratedFor(hostname) == { c \in leaf.generated : c.hostname = hostname }

\* a connection handler calls issueLeaf(hostname)
IssueLeaf(h) ==
  /\ leaf.pc = "on"
  /\ leaf.handler[h].pc = "idle"
  /\ \E hostname \in Hostnames :
       leaf' = [leaf EXCEPT !.handler[h] =
                  [pc |-> "lock", hostname |-> hostname, cert |-> NoCert]]
  /\ UNCHANGED exceptLeaf

\* mutant of Lock: the lock is taken whether it is free or not
LockNotExclusive(h) ==
  /\ leaf.pc = "on"
  /\ leaf.handler[h].pc = "lock"
  /\ leaf' = [leaf EXCEPT !.lock = h, !.handler[h].pc = "lookup"]
  /\ UNCHANGED exceptLeaf

\* the handler takes the lock of the cache
Lock(h) ==
  /\ leaf.pc = "on"
  /\ leaf.handler[h].pc = "lock"
  /\ leaf.lock = 0
  /\ leaf' = [leaf EXCEPT !.lock = h, !.handler[h].pc = "lookup"]
  /\ UNCHANGED exceptLeaf

\* "if a cached leaf for hostname exists, return it"
Lookup(h) ==
  /\ leaf.pc = "on"
  /\ leaf.handler[h].pc = "lookup"
  /\ LET hostname == leaf.handler[h].hostname
     IN leaf' = IF hostname \in DOMAIN leaf.cache
                THEN [leaf EXCEPT !.handler[h].cert = leaf.cache[hostname],
                                  !.handler[h].pc = "unlock"]
                ELSE [leaf EXCEPT !.handler[h].pc = "generate"]
  /\ UNCHANGED exceptLeaf

\* "else generate a new key pair, sign a certificate for hostname using the
\* root key"
Generate(h) ==
  /\ leaf.pc = "on"
  /\ leaf.handler[h].pc = "generate"
  /\ LET hostname == leaf.handler[h].hostname
         cert == [hostname |-> hostname,
                  serial |-> Cardinality(GeneratedFor(hostname)) + 1]
     IN leaf' = [leaf EXCEPT !.generated = @ \cup { cert },
                             !.handler[h].cert = cert,
                             !.handler[h].pc = "cache"]
  /\ UNCHANGED exceptLeaf

\* key generation or signing fails: the connection is failed, nothing is
\* cached
GenerateFail(h) ==
  /\ leaf.pc = "on"
  /\ leaf.handler[h].pc = "generate"
  /\ leaf' = [leaf EXCEPT !.handler[h].pc = "unlock"]
  /\ UNCHANGED exceptLeaf

\* "cache it"
Cache(h) ==
  /\ leaf.pc = "on"
  /\ leaf.handler[h].pc = "cache"
  /\ leaf' = [leaf EXCEPT
                !.cache = MapPut(@, leaf.handler[h].hostname,
                                 leaf.handler[h].cert),
                !.handler[h].pc = "unlock"]
  /\ UNCHANGED exceptLeaf

\* the lock is released and issueLeaf returns the certificate, or fails
Unlock(h) ==
  /\ leaf.pc = "on"
  /\ leaf.handler[h].pc = "unlock"
  /\ leaf' = [leaf EXCEPT !.lock = 0, !.handler[h].pc = "returned"]
  /\ UNCHANGED exceptLeaf

\* the connection ends
Close(h) ==
  /\ leaf.pc = "on"
  /\ leaf.handler[h].pc = "returned"
  /\ leaf' = [leaf EXCEPT !.handler[h] = Idle]
  /\ UNCHANGED exceptLeaf

LeafNext ==
  \/ \E h \in Handlers : IssueLeaf(h)
  \/ \E h \in Handlers : Lock(h)
  \/ \E h \in Handlers : Lookup(h)
  \/ \E h \in Handlers : Generate(h)
  \/ \E h \in Handlers : GenerateFail(h)
  \/ \E h \in Handlers : Cache(h)
  \/ \E h \in Handlers : Unlock(h)
  \/ \E h \in Handlers : Close(h)

LeafSpec == LeafInit /\ [][LeafNext]_vars

(***************************************************************************)
(* C14.  Leaf certificates are issued safely under concurrent first use:   *)
(* whatever the interleaving of the connection handlers, at most one leaf  *)
(* certificate is ever generated for a hostname, and every handler to      *)
(* which issueLeaf has returned a certificate for that hostname holds that *)
(* one, which is the cached one.                                           *)
(***************************************************************************)
C14_OneLeafPerHostname ==
  leaf.pc = "on" =>
    /\ \A hostname \in Hostnames : Cardinality(GeneratedFor(hostname)) <= 1
    /\ \A h \in Handlers :
         LET call == leaf.handler[h]
         IN (call.pc = "returned" /\ call.cert # NoCert) =>
              /\ call.hostname \in DOMAIN leaf.cache
              /\ call.cert = leaf.cache[call.hostname]
              /\ call.cert.hostname = call.hostname

\* concurrent first use: a handler has generated the leaf of a hostname and
\* not yet cached it, while another handler waits for the lock with a
\* request for the same hostname
C14_ConcurrentFirstUse ==
  /\ leaf.pc = "on"
  /\ \E g, h \in Handlers :
       /\ leaf.handler[g].pc = "cache"
       /\ leaf.handler[h].pc = "lock"
       /\ leaf.handler[h].hostname = leaf.handler[g].hostname
       /\ leaf.handler[g].hostname \notin DOMAIN leaf.cache

(***************************************************************************)
(* C21.  With ShouldProxyLoopback false, every request whose host is not a *)
(* loopback address is passed to Protocol.RewriteRequest, also one whose   *)
(* host name cannot be resolved to an IPv4 address.                        *)
(***************************************************************************)
C21_NonLoopbackRewritten ==
  client.pc # "off" =>
    \A req \in client.handled :
      (~client.ShouldProxyLoopback /\ ~req.Host.loopback) => req.rewritten

\* what the code does keep of C21: a host that is not loopback and always
\* resolves (an IPv4 literal) is rewritten
C21_ResolvedNonLoopbackRewritten ==
  client.pc # "off" =>
    \A req \in client.handled :
      req.Host.addr = << "10.0.0.5", ":", "80" >> => req.rewritten

(***************************************************************************)
(* Part 7: logging.Configure (src/unnamed/part_000, package logging).      *)
(* logging.cfgMutex and logging.lastAddr are the package variables;        *)
(* logging.call is the place of each goroutine that calls Configure, with  *)
(* the cfg.Addr of its call; logging.goroutine lists the goroutines that   *)
(* Configure has started ("go func() { ... }()"), each with its place, its *)
(* cfg.Addr and the way its enableLoggly ended; logging.outputs is what    *)
(* golog.SetOutputs was last given.  History: logging.section is the call  *)
(* whose Lock holds cfgMutex, logging.invoked lists the cfg.Addr of every  *)
(* enableLoggly begun, logging.configured are the cfg.Addr of the calls    *)
(* that got past the checks of Configure, and logging.unguarded tells      *)
(* whether lastAddr was ever read or written outside the section of the    *)
(* call that did it.  cfg is not modified once it was given to Configure.  *)
(***************************************************************************)
\* goroutines that call Configure, and all their calls together
MaxCallers == 2
MaxCalls == 3

Callers == 1 .. MaxCallers

\* the values of cfg.Addr; lastAddr starts as ""
Addrs == { "", "127.0.0.1:8787", "127.0.0.1:8788" }

\* n: which call of Configure this is (0: none)
NotCalling == [pc |-> "idle", Addr |-> "", n |-> 0]

\* a goroutine that Configure started, after its last statement
Ended == [pc |-> "done", Addr |-> "", n |-> 0, result |-> "none"]

exceptLogging == << genconfig, nsw, dims, reporter, client, leaf >>

LoggingInit ==
  /\ GenconfigAtRest
  /\ nsw = NoWriter
  /\ dims = NoDims
  /\ reporter = NoReporter
  /\ client = NoClient
  /\ leaf = NoLeaf
  /\ logging = [pc |-> "on", cfgMutex |-> "unlocked", section |-> 0,
                lastAddr |-> "",
                calls |-> 0, call |-> [c \in Callers |-> NotCalling],
                goroutine |-> <<>>, outputs |-> "errorOut",
                invoked |-> <<>>, configured |-> {},
                unguarded |-> FALSE]

\* lastAddr is read or written now on behalf of call n of Configure: is
\* cfgMutex unlocked, or locked by another call?  (section: the call whose
\* "cfgMutex.Lock()" locked the mutex, 0 while it is unlocked.)
Unguarded(n) ==
  \/ logging.unguarded
  \/ logging.cfgMutex = "unlocked"
  \/ logging.section # n

\* Configure(cfg, version, buildDate) with logglyToken, version or
\* buildDate empty: it returns at once
ConfigureNotReady(c) ==
  /\ logging.pc = "on"
  /\ logging.call[c].pc = "idle"
  /\ logging.calls < MaxCalls
  /\ logging' = [logging EXCEPT !.calls = @ + 1]
  /\ UNCHANGED exceptLogging

\* Configure with all three set comes to "cfgMutex.Lock()"
Configure(c) ==
  /\ logging.pc = "on"
  /\ logging.call[c].pc = "idle"
  /\ logging.calls < MaxCalls
  /\ \E addr \in Addrs :
       logging' = [logging EXCEPT
                     !.calls = @ + 1,
                     !.configured = @ \cup {addr},
                     !.call[c] = [pc |-> "Lock", Addr |-> addr,
                                  n |-> logging.calls + 1]]
  /\ UNCHANGED exceptLogging

\* "cfgMutex.Lock()" returns
cfgMutexLock(c) ==
  /\ logging.pc = "on"
  /\ logging.call[c].pc = "Lock"
  /\ logging.cfgMutex = "unlocked"
  /\ logging' = [logging EXCEPT !.cfgMutex = "locked",
                                !.section = logging.call[c].n,
                                !.call[c].pc = "compare"]
  /\ UNCHANGED exceptLogging

\* "if cfg.Addr == lastAddr { cfgMutex.Unlock(); ...; return }"
AddrUnchanged(c) ==
  /\ logging.pc = "on"
  /\ logging.call[c].pc = "compare"
  /\ logging.call[c].Addr = logging.lastAddr
  /\ logging' = [logging EXCEPT
                   !.unguarded = Unguarded(logging.call[c].n),
                   !.cfgMutex = "unlocked",
                   !.section = 0,
                   !.call[c] = NotCalling]
  /\ UNCHANGED exceptLogging

\* mutant of AddrChanged: Configure unlocks cfgMutex itself when it returns
AddrChangedUnlocked(c) ==
  /\ logging.pc = "on"
  /\ logging.call[c].pc = "compare"
  /\ logging.call[c].Addr # logging.lastAddr
  /\ logging' = [logging EXCEPT
                   !.unguarded = Unguarded(logging.call[c].n),
                   !.cfgMutex = "unlocked",
                   !.section = 0,
                   !.goroutine = Append(@, [pc |-> "lastAddr",
                                            Addr |-> logging.call[c].Addr,
                                            n |-> logging.call[c].n,
                                            result |-> "none"]),
                   !.call[c] = NotCalling]
  /\ UNCHANGED exceptLogging

\* cfg.Addr differs from lastAddr: "go func() { ... }()", and Configure
\* returns with cfgMutex locked
AddrChanged(c) ==
  /\ logging.pc = "on"
  /\ logging.call[c].pc = "compare"
  /\ logging.call[c].Addr # logging.lastAddr
  /\ logging' = [logging EXCEPT
                   !.unguarded = Unguarded(logging.call[c].n),
                   !.goroutine = Append(@, [pc |-> "lastAddr",
                                            Addr |-> logging.call[c].Addr,
                                            n |-> logging.call[c].n,
                                            result |-> "none"]),
                   !.call[c] = NotCalling]
  /\ UNCHANGED exceptLogging

\* the goroutine: "lastAddr = cfg.Addr"
SetLastAddr(g) ==
  /\ logging.pc = "on"
  /\ g \in DOMAIN logging.goroutine
  /\ logging.goroutine[g].pc = "lastAddr"
  /\ logging' = [logging EXCEPT
                   !.unguarded = Unguarded(logging.goroutine[g].n),
                   !.lastAddr = logging.goroutine[g].Addr,
                   !.goroutine[g].pc = "enableLoggly"]
  /\ UNCHANGED exceptLogging

\* the goroutine enters enableLoggly(cfg, version, buildDate)
enableLoggly(g) ==
  /\ logging.pc = "on"
  /\ g \in DOMAIN logging.goroutine
  /\ logging.goroutine[g].pc = "enableLoggly"
  /\ logging' = [logging EXCEPT
                   !.invoked = Append(@, logging.goroutine[g].Addr),
                   !.goroutine[g].pc = "inside"]
  /\ UNCHANGED exceptLogging

\* the ways enableLoggly ends for a cfg.Addr: its three failure returns
\* (no proxy known, WaitForServer gives up after 10 s, no HTTP client), each
\* after removeLoggly(), and the end after addLoggly(logglyWriter)
Results(addr) ==
  IF addr = "" THEN { "no known proxy" }
  ELSE { "proxy never came online", "no HTTP client", "added" }

\* golog.SetOutputs of removeLoggly and of addLoggly
Outputs(result) == IF result = "added" THEN "loggly" ELSE "errorOut"

\* mutant of enableLogglyReturn: after a failure return the goroutine ends
\* without "cfgMutex.Unlock()"
enableLogglyReturnLocked(g) ==
  /\ logging.pc = "on"
  /\ g \in DOMAIN logging.goroutine
  /\ logging.goroutine[g].pc = "inside"
  /\ \E result \in Results(logging.goroutine[g].Addr) :
       logging' = [logging EXCEPT
                     !.outputs = Outputs(result),
                     !.goroutine[g].result = result,
                     !.goroutine[g] =
                       IF result = "added" THEN [@ EXCEPT !.pc = "Unlock"]
                       ELSE Ended]
  /\ UNCHANGED exceptLogging

\* enableLoggly returns to the goroutine
enableLogglyReturn(g) ==
  /\ logging.pc = "on"
  /\ g \in DOMAIN logging.goroutine
  /\ logging.goroutine[g].pc = "inside"
  /\ \E result \in Results(logging.goroutine[g].Addr) :
       logging' = [logging EXCEPT !.outputs = Outputs(result),
                                  !.goroutine[g].result = result,
                                  !.goroutine[g].pc = "Unlock"]
  /\ UNCHANGED exceptLogging

\* the goroutine: "cfgMutex.Unlock()"
cfgMutexUnlock(g) ==
  /\ logging.pc = "on"
  /\ g \in DOMAIN logging.goroutine
  /\ logging.goroutine[g].pc = "Unlock"
  /\ logging' = [logging EXCEPT !.cfgMutex = "unlocked",
                                !.section = 0,
                                !.goroutine[g] = Ended]
  /\ UNCHANGED exceptLogging

LoggingNext ==
  \/ \E c \in Callers : ConfigureNotReady(c)
  \/ \E c \in Callers : Configure(c)
  \/ \E c \in Callers : cfgMutexLock(c)
  \/ \E c \in Callers : AddrUnchanged(c)
  \/ \E c \in Callers : AddrChanged(c)
  \/ \E g \in 1 .. MaxCalls : SetLastAddr(g)
  \/ \E g \in 1 .. MaxCalls : enableLoggly(g)
  \/ \E g \in 1 .. MaxCalls : enableLogglyReturn(g)
  \/ \E g \in 1 .. MaxCalls : cfgMutexUnlock(g)

LoggingSpec == LoggingInit /\ [][LoggingNext]_vars

\* the steps that are not a new call of Configure
LoggingProgress ==
  \/ \E c \in Callers : cfgMutexLock(c) \/ AddrUnchanged(c) \/ AddrChanged(c)
  \/ \E g \in 1 .. MaxCalls :
       \/ SetLastAddr(g)
       \/ enableLoggly(g)
       \/ enableLogglyReturn(g)
       \/ cfgMutexUnlock(g)

\* The Go scheduler runs a goroutine that can take a step: the goroutine
\* spawned by Configure goes on to its end, enableLoggly returns (its
\* WaitForServer gives up after 10 s), and a cfgMutex.Lock() that can
\* return does.  Nothing obliges anyone to call Configure.
LoggingFairSpec == LoggingSpec /\ WF_vars(LoggingProgress)

\* the goroutines that are inside enableLoggly
Running ==
  { g \in DOMAIN logging.goroutine : logging.goroutine[g].pc = "inside" }

C23_MutexReleased ==
  /\ (logging.pc # "off" /\ logging.cfgMutex = "locked")
       ~> (logging.cfgMutex = "unlocked")
  /\ \A c \in Callers :
       (logging.pc # "off" /\ logging.call[c].pc = "Lock")
         ~> (logging.call[c].pc # "Lock")

\* witness: a later Configure call waits in cfgMutex.Lock() when
\* enableLoggly has come back by one of its failure returns and the
\* goroutine has not unlocked yet
C23_WaitingAfterFailure ==
  /\ logging.pc # "off"
  /\ logging.cfgMutex = "locked"
  /\ \E g \in DOMAIN logging.goroutine : \E c \in Callers :
       /\ logging.goroutine[g].pc = "Unlock"
       /\ logging.goroutine[g].result \in
            { "no known proxy", "proxy never came online", "no HTTP client" }
       /\ logging.call[c].pc = "Lock"
       /\ logging.call[c].n > logging.goroutine[g].n

====
